---- MODULE Spec2Model ----
(***************************************************************************)
(* Mem0MemoryManager (src/api/app/memory/mem0_manager.py): the access-     *)
(* controlled, multi-namespace memory layer over an AsyncMemory backend.   *)
(*                                                                         *)
(* State: the backend behind self.memory (the stored records, keyed by a   *)
(* backend-assigned id, each under the namespace string it was added to),  *)
(* the record of the manager call that has just run (its arguments, the    *)
(* backend calls it issued, and what it returned or raised), and the       *)
(* frames of the calls that are suspended at an await.                     *)
(*                                                                         *)
(* Spec is the manager after construction, under add, search, update and   *)
(* delete, each call run to its end.  SpecLifecycle starts before          *)
(* create_memory_manager (src/api/app/memory/factory.py) has run and adds  *)
(* close().  SpecMerge runs search over arbitrary provider answers.        *)
(* SpecConcurrent interleaves two calls at their backend awaits.           *)
(* SpecHealth is the readiness probe (src/api/app/routers/health.py) and   *)
(* SpecSkills the MCP tool get_skills (src/mcp/a4s_mcp/server.py).         *)
(***************************************************************************)
EXTENDS Naturals, Integers, Sequences, FiniteSets, TLC

VARIABLES memory, next_id, last, manager, closed, frames

vars == <<memory, next_id, last, manager, closed, frames>>

\* The manager the factory has constructed, and whether close() has been
\* called on it.
life == <<manager, closed>>

(* ------------------------------ bounds -------------------------------- *)

\* The backend stores at most this many records over a run (ids are never reused).
MaxMem == 3

\* SearchMemoryRequest.limit ranges over 1..MaxLimit.
MaxLimit == 2

(* --------------------------- the environment -------------------------- *)

\* Logical agent ids, among them ids that end in a visibility tag.
AgentIds == {"a", "a-private"}

Users == {"alice", "bob"}

\* The owner the transport resolves for an agent and hands in as owner_id.
OwnerOf(agent_id) == IF agent_id = "a" THEN "alice" ELSE "bob"

\* Visibility enum values (request.visibility.value).
Visibilities == {"private", "public"}

\* Message bodies / memory contents.
Contents == {"c1", "c2"}

\* Caller-supplied metadata of a CreateMemoryRequest.
Metadatas == {[source |-> "chat"]}

Queries == {"q1", "q2"}

\* How many entries the backend's add reports in result["results"].
AddCounts == {0, 1, 2}

\* Python's None, and a present optional value.
None == <<>>
Some(x) == <<x>>

\* dict.get(k, d)
Get(r, k, d) == IF k \in DOMAIN r THEN r[k] ELSE d

\* The frame of a task that runs no manager call.
NoFrame == [pc |-> "none"]

\* The tasks that may have a manager call suspended at an await.
Tasks == {1, 2}

\* No manager call is in progress or awaiting its caller.
NoCall == [op |-> "idle", calls |-> <<>>, outcome |-> "ok"]

Idle == last.op = "idle"

\* The factory has returned a Mem0MemoryManager.
HasMem0 == manager = "Mem0MemoryManager"

(* ---------------------------- the backend ----------------------------- *)

\* The id the backend assigns to its n-th record.
MemId(n) == "m" \o ToString(n)

\* The backend's relevance of a stored content to a query.
Rel(query, content) ==
    IF query = "q1" THEN (IF content = "c1" THEN 1 ELSE 2)
                    ELSE (IF content = "c1" THEN 2 ELSE 2)

\* The records stored under namespace ns, as the set of their indices.
Stored(mem, ns) == {n \in DOMAIN mem : mem[n].agent_id = ns}

\* One search hit, as the backend reports it.
Hit(mem, query, n) ==
    [id |-> MemId(n), memory |-> mem[n].memory, score |-> Rel(query, mem[n].memory)]

\* The hits of a set of records, best score first, older record first among equals.
RECURSIVE RankHits(_, _, _)
RankHits(mem, query, S) ==
    IF S = {} THEN <<>>
    ELSE LET best == CHOOSE n \in S : \A k \in S :
                        \/ Rel(query, mem[n].memory) > Rel(query, mem[k].memory)
                        \/ /\ Rel(query, mem[n].memory) = Rel(query, mem[k].memory)
                           /\ n <= k
         IN  <<Hit(mem, query, best)>> \o RankHits(mem, query, S \ {best})

Take(s, n) == SubSeq(s, 1, IF n < Len(s) THEN n ELSE Len(s))

\* AsyncMemory.search(query, agent_id, limit): the namespace's top-limit hits.
BackendSearch(mem, query, ns, limit) ==
    [results |-> Take(RankHits(mem, query, Stored(mem, ns)), limit)]

(* ------------------------- the namespace scoper ----------------------- *)

\* A composition that drops the visibility tag.
_build_agent_id_without_visibility(agent_id, visibility) ==
    agent_id

_build_agent_id_with_visibility(agent_id, visibility) ==
    agent_id \o "-" \o visibility

\* A scoper that forgets the requester: every search sees both namespaces.
_get_search_agent_ids_any_requester(agent_id, requester_id, owner_id) ==
    <<agent_id \o "-private", agent_id \o "-public">>

\* A scoper with the test inverted: the owner sees the public namespace only.
_get_search_agent_ids_inverted(agent_id, requester_id, owner_id) ==
    IF requester_id # owner_id
    THEN <<agent_id \o "-private", agent_id \o "-public">>
    ELSE <<agent_id \o "-public">>

\* A scoper that shows a non-owner no namespace at all.
_get_search_agent_ids_owner_only(agent_id, requester_id, owner_id) ==
    IF requester_id = owner_id
    THEN <<agent_id \o "-private", agent_id \o "-public">>
    ELSE <<>>

\* A scoper that lists the owner's public namespace first.
_get_search_agent_ids_public_first(agent_id, requester_id, owner_id) ==
    IF requester_id = owner_id
    THEN <<agent_id \o "-public", agent_id \o "-private">>
    ELSE <<agent_id \o "-public">>

_get_search_agent_ids(agent_id, requester_id, owner_id) ==
    IF requester_id = owner_id
    THEN <<agent_id \o "-private", agent_id \o "-public">>
    ELSE <<agent_id \o "-public">>

(* ------------------------------ search -------------------------------- *)

\* A sort key that puts a hit without a score below every scored hit.
ScoreKeyMissingLowest(x) == Get(x, "score", 0 - 2)

\* The sort key of line 105: x.get("score", 0).
ScoreKey(x) == Get(x, "score", 0)

\* A sort that puts a later hit ahead of the earlier hits of equal key.
RECURSIVE InsertDescUnstable(_, _)
InsertDescUnstable(x, s) ==
    IF s = <<>> THEN <<x>>
    ELSE IF ScoreKey(Head(s)) > ScoreKey(x)
         THEN <<Head(s)>> \o InsertDescUnstable(x, Tail(s))
         ELSE <<x>> \o s

\* list.sort(key=..., reverse=True): stable, greatest key first.
RECURSIVE InsertDesc(_, _)
InsertDesc(x, s) ==
    IF s = <<>> THEN <<x>>
    ELSE IF ScoreKey(Head(s)) >= ScoreKey(x)
         THEN <<Head(s)>> \o InsertDesc(x, Tail(s))
         ELSE <<x>> \o s

\* The sort without reverse=True: stable, least key first.
RECURSIVE InsertAsc(_, _)
InsertAsc(x, s) ==
    IF s = <<>> THEN <<x>>
    ELSE IF ScoreKey(Head(s)) <= ScoreKey(x)
         THEN <<Head(s)>> \o InsertAsc(x, Tail(s))
         ELSE <<x>> \o s

RECURSIVE SortByScoreAscending(_)
SortByScoreAscending(s) ==
    IF s = <<>> THEN <<>>
    ELSE InsertAsc(s[Len(s)], SortByScoreAscending(SubSeq(s, 1, Len(s) - 1)))

RECURSIVE SortByScore(_)
SortByScore(s) ==
    IF s = <<>> THEN <<>>
    ELSE InsertDesc(s[Len(s)], SortByScore(SubSeq(s, 1, Len(s) - 1)))

\* all_results[: request.limit], for a positive limit.
Truncate(s, limit) == Take(s, limit)

\* A mapping that reports the sort key as the score of a hit without one.
MemoryOfHitScoreZero(r) ==
    [id       |-> Get(r, "id", ""),
     content  |-> Get(r, "memory", ""),
     score    |-> Some(Get(r, "score", 0)),
     metadata |-> IF "metadata" \in DOMAIN r THEN Some(r.metadata) ELSE None]

\* Memory(id=..., content=..., score=..., metadata=...) of a search hit.
MemoryOfHit(r) ==
    [id       |-> Get(r, "id", ""),
     content  |-> Get(r, "memory", ""),
     score    |-> IF "score" \in DOMAIN r THEN Some(r.score) ELSE None,
     metadata |-> IF "metadata" \in DOMAIN r THEN Some(r.metadata) ELSE None]

\* A fan-out that divides the limit among the visible namespaces.
SearchCallDividedLimit(mem, request, agent_ids, fails, i) ==
    LET share == request.limit \div Len(agent_ids)
    IN  [fn       |-> "search",
         query    |-> request.query,
         agent_id |-> agent_ids[i],
         limit    |-> share,
         raised   |-> i \in fails,
         results  |-> IF i \in fails THEN <<>>
                      ELSE Get(BackendSearch(mem, request.query, agent_ids[i], share),
                               "results", <<>>)]

\* The backend call search issues for the i-th visible namespace; it raises
\* when i is in fails.
SearchCall(mem, request, agent_ids, fails, i) ==
    [fn       |-> "search",
     query    |-> request.query,
     agent_id |-> agent_ids[i],
     limit    |-> request.limit,
     raised   |-> i \in fails,
     results  |-> IF i \in fails THEN <<>>
                  ELSE Get(BackendSearch(mem, request.query, agent_ids[i], request.limit),
                           "results", <<>>)]

\* A loop that the first failed backend call ends: the namespaces after it
\* are not queried.
SearchCallsUntilRaise(mem, request, agent_ids, fails) ==
    LET stop == IF fails = {} THEN Len(agent_ids)
                ELSE CHOOSE i \in fails : \A j \in fails : i <= j
    IN  [i \in 1..stop |-> SearchCall(mem, request, agent_ids, fails, i)]

\* The for loop of lines 94-103: one backend call per namespace, in order.
SearchCalls(mem, request, agent_ids, fails) ==
    [i \in 1..Len(agent_ids) |-> SearchCall(mem, request, agent_ids, fails, i)]

\* A loop that takes every answer in twice.
RECURSIVE CollectRepeating(_)
CollectRepeating(calls) ==
    IF calls = <<>> THEN <<>>
    ELSE (IF Head(calls).raised THEN <<>> ELSE Head(calls).results \o Head(calls).results)
         \o CollectRepeating(Tail(calls))

\* A loop that a failed backend call ends: what later namespaces hold is lost.
RECURSIVE CollectUntilRaise(_)
CollectUntilRaise(calls) ==
    IF calls = <<>> \/ Head(calls).raised THEN <<>>
    ELSE Head(calls).results \o CollectUntilRaise(Tail(calls))

\* all_results after the loop: the results of the calls that returned, in order.
RECURSIVE Collect(_)
Collect(calls) ==
    IF calls = <<>> THEN <<>>
    ELSE (IF Head(calls).raised THEN <<>> ELSE Head(calls).results) \o Collect(Tail(calls))

\* What search returns for the backend calls it made (lines 105-116).
SearchResult(calls, limit) ==
    LET all_results == Truncate(SortByScore(Collect(calls)), limit)
    IN  [i \in 1..Len(all_results) |-> MemoryOfHit(all_results[i])]

\* A loop without the except clause: a failed backend call reaches the caller.
SearchOutcomeRaising(calls) ==
    IF \E i \in DOMAIN calls : calls[i].raised THEN "BackendError" ELSE "ok"

\* except Exception: logger.exception(...): a failed backend call is logged
\* and the loop goes on; nothing is raised to the caller.
SearchOutcome(calls) == "ok"

SearchRequests ==
    [agent_id : AgentIds, query : Queries, limit : 1..MaxLimit]

\* One run of search against backend state mem: the backend calls it issues,
\* how it ends and what it returns.
SearchRun(mem, request, owner_id, requester_id, fails) ==
    LET agent_ids == _get_search_agent_ids(request.agent_id, requester_id, owner_id)
        calls     == SearchCalls(mem, request, agent_ids, fails)
    IN  [calls   |-> calls,
         outcome |-> SearchOutcome(calls),
         result  |-> SearchResult(calls, request.limit)]

\* Mem0MemoryManager.search(request, owner_id, requester_id)
search(request, requester_id, fails) ==
    LET owner_id == OwnerOf(request.agent_id)
    IN  /\ fails \subseteq
               DOMAIN _get_search_agent_ids(request.agent_id, requester_id, owner_id)
        /\ last' = [op |-> "search", request |-> request, owner_id |-> owner_id,
                    requester_id |-> requester_id]
                   @@ SearchRun(memory, request, owner_id, requester_id, fails)
        /\ UNCHANGED <<memory, next_id>>

Search ==
    /\ Idle
    /\ HasMem0
    /\ UNCHANGED <<life, frames>>
    /\ \E request \in SearchRequests, requester_id \in Users, fails \in SUBSET {1, 2} :
            search(request, requester_id, fails)

(* ------------------ search over what a provider answers --------------- *)

\* Hits as a provider may report them: a hit may come without an id, without
\* content, without a score or without metadata, and a score may be negative.
RawHits ==
    { [id |-> "h1", memory |-> "c1", score |-> 1, metadata |-> [source |-> "chat"]],
      [id |-> "h2", memory |-> "c2", score |-> 0 - 1],
      [id |-> "h3", memory |-> "c1"],
      [id |-> "h4", score |-> 0, metadata |-> [source |-> "chat"]],
      [memory |-> "c2", score |-> 1] }

\* The lists a provider may answer one query of the given limit with.
Replies(limit) == UNION {[1..n -> RawHits] : n \in 0..limit}

MergeRequests == [agent_id : {"a"}, query : {"q1"}, limit : 1..MaxLimit]

\* The backend call for the i-th visible namespace, answered with reply
\* unless i is in fails.
SearchCallAnswered(request, agent_ids, fails, i, reply) ==
    [fn       |-> "search",
     query    |-> request.query,
     agent_id |-> agent_ids[i],
     limit    |-> request.limit,
     raised   |-> i \in fails,
     results  |-> IF i \in fails THEN <<>> ELSE Get([results |-> reply], "results", <<>>)]

\* Mem0MemoryManager.search against a provider that answers the i-th query
\* with replies[i].
search_answered(request, requester_id, fails, replies) ==
    LET owner_id  == OwnerOf(request.agent_id)
        agent_ids == _get_search_agent_ids(request.agent_id, requester_id, owner_id)
        calls     == [i \in 1..Len(agent_ids) |->
                         SearchCallAnswered(request, agent_ids, fails, i, replies[i])]
    IN  /\ fails \subseteq DOMAIN agent_ids
        /\ \A i \in 1..2 : (i \notin DOMAIN agent_ids \/ i \in fails) => replies[i] = <<>>
        /\ last' = [op |-> "search", request |-> request, owner_id |-> owner_id,
                    requester_id |-> requester_id,
                    calls |-> calls,
                    outcome |-> SearchOutcome(calls),
                    result |-> SearchResult(calls, request.limit)]
        /\ UNCHANGED <<memory, next_id>>

SearchAnswered ==
    /\ Idle
    /\ HasMem0
    /\ UNCHANGED <<life, frames>>
    /\ \E request \in MergeRequests, requester_id \in Users, fails \in SUBSET {1, 2} :
          \E replies \in [1..2 -> Replies(request.limit)] :
            search_answered(request, requester_id, fails, replies)

(* -------------------------------- add --------------------------------- *)

CreateRequests ==
    [agent_id : AgentIds, visibility : Visibilities, messages : Contents,
     metadata : Metadatas]

\* A guard that lets every requester through.
AllowedAnyone(requester_id, owner_id) == TRUE

\* Whether the manager lets the call through (lines 64 and 133).
Allowed(requester_id, owner_id) == requester_id = owner_id

\* The record the backend stores for an add under namespace ns (agent and
\* visibility are kept beside it to name where the record came from).
NewRecord(request, ns) ==
    [agent_id |-> ns, memory |-> request.messages, metadata |-> request.metadata,
     agent |-> request.agent_id, visibility |-> request.visibility]

\* A mapping that reports the last entry of the backend's list.
MemoryOfAddLastEntry(results) ==
    LET mem == IF results # <<>> THEN results[Len(results)] ELSE <<>>
    IN  [id       |-> Get(mem, "id", ""),
         content  |-> Get(mem, "memory", ""),
         score    |-> None,
         metadata |-> IF "metadata" \in DOMAIN mem THEN Some(mem.metadata) ELSE None]

\* Memory(id=mem.get("id", ""), content=mem.get("memory", ""), metadata=...)
MemoryOfAdd(results) ==
    LET mem == IF results # <<>> THEN results[1] ELSE <<>>
    IN  [id       |-> Get(mem, "id", ""),
         content  |-> Get(mem, "memory", ""),
         score    |-> None,
         metadata |-> IF "metadata" \in DOMAIN mem THEN Some(mem.metadata) ELSE None]

\* The entries the backend's add reports for the count records it creates.
AddResults(request, first, count) ==
    [i \in 1..count |-> [id |-> MemId(first + i - 1), memory |-> request.messages,
                         metadata |-> request.metadata]]

\* A backend add that forgets the caller's metadata.
AddCallWithoutMetadata(request, scoped_agent_id, raises, results) ==
    [fn |-> "add", messages |-> request.messages, agent_id |-> scoped_agent_id,
     metadata |-> None, raised |-> raises, results |-> results]

\* self.memory.add(messages=, agent_id=, metadata=) of lines 68-72, with what
\* the backend answered.
AddCall(request, scoped_agent_id, raises, results) ==
    [fn |-> "add", messages |-> request.messages, agent_id |-> scoped_agent_id,
     metadata |-> request.metadata, raised |-> raises, results |-> results]

\* A backend call that is tried once more after it raised.
RetryThenPropagate(head, calls) ==
    head @@ [calls |-> calls \o calls, outcome |-> "BackendError", result |-> None]

\* How add, update and delete end when their backend call raises: the await
\* stands in no try block, so the error reaches the caller as it is.
PropagateError(head, calls) ==
    head @@ [calls |-> calls, outcome |-> "BackendError", result |-> None]

\* Mem0MemoryManager.add(request, owner_id, requester_id); the backend creates
\* and reports count records, or raises.
add(request, requester_id, count, raises) ==
    LET owner_id == OwnerOf(request.agent_id)
        scoped_agent_id ==
            _build_agent_id_with_visibility(request.agent_id, request.visibility)
        head == [op |-> "add", request |-> request, owner_id |-> owner_id,
                 requester_id |-> requester_id]
    IN  IF ~Allowed(requester_id, owner_id)
        THEN /\ last' = head @@ [calls |-> <<>>, outcome |-> "PermissionError",
                                 result |-> None]
             /\ UNCHANGED <<memory, next_id>>
        ELSE IF raises
        THEN /\ last' = PropagateError(head,
                            <<AddCall(request, scoped_agent_id, TRUE, <<>>)>>)
             /\ UNCHANGED <<memory, next_id>>
        ELSE LET results == AddResults(request, next_id, count)
                 call    == AddCall(request, scoped_agent_id, FALSE, results)
             IN  /\ next_id + count - 1 <= MaxMem
                 /\ memory' = memory @@ [k \in next_id..(next_id + count - 1) |->
                                            NewRecord(request, call.agent_id)]
                 /\ next_id' = next_id + count
                 /\ last' = head @@ [calls |-> <<call>>, outcome |-> "ok",
                                     result |-> Some(MemoryOfAdd(results))]

Add ==
    /\ Idle
    /\ HasMem0
    /\ UNCHANGED <<life, frames>>
    /\ \E request \in CreateRequests, requester_id \in Users,
          count \in AddCounts, raises \in BOOLEAN :
            add(request, requester_id, count, raises)

(* ------------------------------- update ------------------------------- *)

\* A returned Memory that misses the id.
MemoryOfUpdateWithoutId(memory_id, content) ==
    [id |-> "", content |-> content, score |-> None, metadata |-> None]

\* Memory(id=memory_id, content=request.content) of line 120.
MemoryOfUpdate(memory_id, content) ==
    [id |-> memory_id, content |-> content, score |-> None, metadata |-> None]

\* An update that stores the new content under the agent's public namespace.
update_republishing(n, content, requester_id) ==
    LET known == n \in DOMAIN memory
        call  == [fn |-> "update", memory_id |-> MemId(n), content |-> content,
                  raised |-> ~known]
        head  == [op |-> "update", memory_id |-> MemId(n), content |-> content,
                  requester_id |-> requester_id,
                  target |-> IF known THEN Some(memory[n]) ELSE None]
    IN  IF known
        THEN /\ memory' = [memory EXCEPT ![n].memory = content,
                                         ![n].visibility = "public",
                                         ![n].agent_id = memory[n].agent \o "-public"]
             /\ last' = head @@ [calls |-> <<call>>, outcome |-> "ok",
                                 result |-> Some(MemoryOfUpdate(MemId(n), content))]
             /\ UNCHANGED next_id
        ELSE /\ last' = PropagateError(head, <<call>>)
             /\ UNCHANGED <<memory, next_id>>

\* Mem0MemoryManager.update(memory_id, request), called on behalf of
\* requester_id (the method takes no identity).  The backend raises for an
\* id it does not hold.
update(n, content, requester_id) ==
    LET known == n \in DOMAIN memory
        call  == [fn |-> "update", memory_id |-> MemId(n), content |-> content,
                  raised |-> ~known]
        head  == [op |-> "update", memory_id |-> MemId(n), content |-> content,
                  requester_id |-> requester_id,
                  target |-> IF known THEN Some(memory[n]) ELSE None]
    IN  IF known
        THEN /\ memory' = [memory EXCEPT ![n].memory = content]
             /\ last' = head @@ [calls |-> <<call>>, outcome |-> "ok",
                                 result |-> Some(MemoryOfUpdate(MemId(n), content))]
             /\ UNCHANGED next_id
        ELSE /\ last' = PropagateError(head, <<call>>)
             /\ UNCHANGED <<memory, next_id>>

Update ==
    /\ Idle
    /\ HasMem0
    /\ UNCHANGED <<life, frames>>
    /\ \E n \in 1..MaxMem, content \in Contents, requester_id \in Users :
            update(n, content, requester_id)

(* ------------------------------- delete ------------------------------- *)

\* The backend's records without record n.
Without(mem, n) == [k \in DOMAIN mem \ {n} |-> mem[k]]

\* A delete that is forwarded to the backend twice.
DeleteCallsRepeated(memory_id, raised) ==
    <<[fn |-> "delete", memory_id |-> memory_id, raised |-> raised],
      [fn |-> "delete", memory_id |-> memory_id, raised |-> TRUE]>>

\* self.memory.delete(memory_id) of line 135.
DeleteCalls(memory_id, raised) ==
    <<[fn |-> "delete", memory_id |-> memory_id, raised |-> raised]>>

\* Mem0MemoryManager.delete(memory_id, owner_id, requester_id)
delete(n, owner_id, requester_id) ==
    LET known == n \in DOMAIN memory
        calls == DeleteCalls(MemId(n), ~known)
        head  == [op |-> "delete", memory_id |-> MemId(n), owner_id |-> owner_id,
                  requester_id |-> requester_id,
                  target |-> IF known THEN Some(memory[n]) ELSE None]
    IN  IF ~Allowed(requester_id, owner_id)
        THEN /\ last' = head @@ [calls |-> <<>>, outcome |-> "PermissionError",
                                 result |-> None]
             /\ UNCHANGED <<memory, next_id>>
        ELSE IF known
        THEN /\ memory' = Without(memory, n)
             /\ last' = head @@ [calls |-> calls, outcome |-> "ok", result |-> None]
             /\ UNCHANGED next_id
        ELSE /\ last' = PropagateError(head, calls)
             /\ UNCHANGED <<memory, next_id>>

Delete ==
    /\ Idle
    /\ HasMem0
    /\ UNCHANGED <<life, frames>>
    /\ \E n \in 1..MaxMem, owner_id \in Users, requester_id \in Users :
            delete(n, owner_id, requester_id)

(* --------------------------- specification ---------------------------- *)

\* The call has returned to its caller; the manager keeps nothing of it
\* (its only attribute is the backend handle).
Return ==
    /\ ~Idle
    /\ last' = NoCall
    /\ UNCHANGED <<memory, next_id>>
    /\ UNCHANGED <<life, frames>>

\* The state after construction: Mem0MemoryManager.create has returned the
\* manager, over a backend that holds nothing yet.
Init ==
    /\ memory = <<>>
    /\ next_id = 1
    /\ last = NoCall
    /\ manager = "Mem0MemoryManager"
    /\ closed = FALSE
    /\ frames = [t \in Tasks |-> NoFrame]

Next == Add \/ Search \/ Update \/ Delete \/ Return

Spec == Init /\ [][Next]_vars

(* ------------------------- factory and close -------------------------- *)

\* Values of cfg.memory_provider: the two supported kinds and two others.
Providers == {"GRAPHITI", "MEM0", "ZEP", ""}

Configs == [memory_provider : Providers]

\* A factory whose error does not say which provider was asked for.
create_memory_manager_unnamed_error(config, default_config) ==
    LET cfg == IF config # None THEN config[1] ELSE default_config
    IN  IF cfg.memory_provider = "GRAPHITI"
        THEN [outcome |-> "ok", constructed |-> <<"GraphitiMemoryManager">>,
              message |-> ""]
        ELSE IF cfg.memory_provider = "MEM0"
        THEN [outcome |-> "ok", constructed |-> <<"Mem0MemoryManager">>,
              message |-> ""]
        ELSE [outcome |-> "ValueError", constructed |-> <<>>,
              message |-> "Unsupported memory provider"]

\* create_memory_manager(config): the managers it constructs (by class), how
\* it ends, and the message of the error it raises.
create_memory_manager(config, default_config) ==
    LET cfg == IF config # None THEN config[1] ELSE default_config
    IN  IF cfg.memory_provider = "GRAPHITI"
        THEN [outcome |-> "ok", constructed |-> <<"GraphitiMemoryManager">>,
              message |-> ""]
        ELSE IF cfg.memory_provider = "MEM0"
        THEN [outcome |-> "ok", constructed |-> <<"Mem0MemoryManager">>,
              message |-> ""]
        ELSE [outcome |-> "ValueError", constructed |-> <<>>,
              message |-> "Unsupported memory provider: " \o cfg.memory_provider]

\* The process starts: the factory runs once; when it fails there is no
\* manager and the start may be tried again.
Create ==
    /\ Idle
    /\ manager = "none"
    /\ \E config \in {None} \cup {Some(c) : c \in Configs}, default_config \in Configs :
          LET made == create_memory_manager(config, default_config)
          IN  /\ last' = [op |-> "create_memory_manager", config |-> config,
                          default_config |-> default_config, calls |-> <<>>] @@ made
              /\ manager' = IF made.constructed # <<>>
                             THEN made.constructed[Len(made.constructed)]
                             ELSE "none"
    /\ UNCHANGED <<memory, next_id, closed, frames>>

\* A close that raises on a manager that is closed already.
close_raising_when_closed ==
    /\ last' = [op |-> "close", calls |-> <<>>,
                outcome |-> IF closed THEN "RuntimeError" ELSE "ok",
                was_closed |-> closed]
    /\ closed' = TRUE
    /\ UNCHANGED <<memory, next_id, manager>>

\* A close that resets the backend.
close_resetting_backend ==
    /\ last' = [op |-> "close", calls |-> <<[fn |-> "reset", raised |-> FALSE]>>,
                outcome |-> "ok", was_closed |-> closed]
    /\ closed' = TRUE
    /\ memory' = <<>>
    /\ UNCHANGED <<next_id, manager>>

\* Mem0MemoryManager.close(): pass.  closed records that it has been called.
close ==
    /\ last' = [op |-> "close", calls |-> <<>>, outcome |-> "ok",
                was_closed |-> closed]
    /\ closed' = TRUE
    /\ UNCHANGED <<memory, next_id, manager>>

Close ==
    /\ Idle
    /\ HasMem0
    /\ close
    /\ UNCHANGED frames

\* Before the factory has run.
InitLifecycle ==
    /\ memory = <<>>
    /\ next_id = 1
    /\ last = NoCall
    /\ manager = "none"
    /\ closed = FALSE
    /\ frames = [t \in Tasks |-> NoFrame]

NextLifecycle == Create \/ Close \/ Add \/ Search \/ Update \/ Delete \/ Return

SpecLifecycle == InitLifecycle /\ [][NextLifecycle]_vars

(* ------------- calls interleaved at their backend awaits --------------- *)

\* The calls the tasks make: all on agent "a", by its owner or by another user.
ConcurrentSearches == [agent_id : {"a"}, query : {"q1"}, limit : 1..MaxLimit]

ConcurrentCreates ==
    [agent_id : {"a"}, visibility : Visibilities, messages : {"c1"}, metadata : Metadatas]

\* The frame is at an await of a backend call / has the value it returns.
Awaiting(fr) == fr.pc = "await"
Done(fr) == fr.pc = "done"

\* A fan-out that starts the queries of all visible namespaces at once.
FirstIssuedAll(agent_ids) == Len(agent_ids)

\* How many backend queries search has issued when it first suspends: the
\* loop awaits the first query before anything else.
FirstIssued(agent_ids) == 1

\* An accumulator kept on the manager: an answer is appended to the list of
\* every search that is in flight.
ExtendShared(fs, t, call) ==
    [u \in DOMAIN fs |->
        IF fs[u].pc = "await" /\ fs[u].op = "search" /\ ~call.raised
        THEN [fs[u] EXCEPT !.all_results = @ \o call.results]
        ELSE fs[u]]

\* all_results.extend(results.get("results", [])) on the local list of task
\* t's search; a query that raised adds nothing.
Extend(fs, t, call) ==
    [fs EXCEPT ![t].all_results = IF call.raised THEN @ ELSE @ \o call.results]

\* Lines 105-116 on the local list of a search frame.
Finished(fr) ==
    LET all_results == Truncate(SortByScore(fr.all_results), fr.request.limit)
    IN  [fr EXCEPT !.pc = "done",
                   !.result = [i \in 1..Len(all_results) |-> MemoryOfHit(all_results[i])]]

\* search up to its first await: the namespaces are chosen and the first
\* query is issued.
StartSearch ==
    \E t \in Tasks, request \in ConcurrentSearches, requester_id \in Users :
        LET owner_id  == OwnerOf(request.agent_id)
            agent_ids == _get_search_agent_ids(request.agent_id, requester_id, owner_id)
        IN  /\ frames[t] = NoFrame
            /\ frames' = [frames EXCEPT ![t] =
                   [op |-> "search", pc |-> "await", request |-> request,
                    owner_id |-> owner_id, requester_id |-> requester_id,
                    agent_ids |-> agent_ids, issued |-> FirstIssued(agent_ids),
                    calls |-> <<>>, all_results |-> <<>>,
                    outcome |-> "ok", result |-> <<>>]]
            /\ UNCHANGED <<memory, next_id, last, life>>

\* The backend answers (or fails) the query a search awaits; the search
\* takes the answer in and issues the next query, or sorts, cuts and returns.
ReplySearch ==
    \E t \in Tasks, raises \in BOOLEAN :
        /\ frames[t].pc = "await"
        /\ frames[t].op = "search"
        /\ LET fr   == frames[t]
               i    == Len(fr.calls) + 1
               call == SearchCall(memory, fr.request, fr.agent_ids,
                                  IF raises THEN {i} ELSE {}, i)
               fs   == Extend([frames EXCEPT ![t].calls = Append(@, call)], t, call)
           IN  frames' = IF i = Len(fr.agent_ids)
                         THEN [fs EXCEPT ![t] = Finished(fs[t])]
                         ELSE [fs EXCEPT ![t].issued =
                                  IF @ < i + 1 THEN i + 1 ELSE @]
        /\ UNCHANGED <<memory, next_id, last, life>>

\* add up to its await: the guard, then the backend add is issued.
StartAdd ==
    \E t \in Tasks, request \in ConcurrentCreates, requester_id \in Users :
        LET owner_id == OwnerOf(request.agent_id)
            head == [op |-> "add", request |-> request, owner_id |-> owner_id,
                     requester_id |-> requester_id, calls |-> <<>>]
        IN  /\ frames[t] = NoFrame
            /\ frames' = [frames EXCEPT ![t] =
                   IF ~Allowed(requester_id, owner_id)
                   THEN head @@ [pc |-> "done", outcome |-> "PermissionError",
                                 result |-> None]
                   ELSE head @@ [pc |-> "await", outcome |-> "ok", result |-> None]]
            /\ UNCHANGED <<memory, next_id, last, life>>

\* The backend stores the record of an awaited add and reports it.
ReplyAdd ==
    \E t \in Tasks :
        /\ frames[t].pc = "await"
        /\ frames[t].op = "add"
        /\ next_id <= MaxMem
        /\ LET fr == frames[t]
               scoped_agent_id == _build_agent_id_with_visibility(
                                      fr.request.agent_id, fr.request.visibility)
               results == AddResults(fr.request, next_id, 1)
               call    == AddCall(fr.request, scoped_agent_id, FALSE, results)
           IN  /\ memory' = memory @@ (next_id :> NewRecord(fr.request, call.agent_id))
               /\ next_id' = next_id + 1
               /\ frames' = [frames EXCEPT ![t] =
                      [fr EXCEPT !.pc = "done", !.calls = <<call>>,
                                 !.result = Some(MemoryOfAdd(results))]]
        /\ UNCHANGED <<last, life>>

\* update up to its await: the backend update is issued without a guard.
StartUpdate ==
    \E t \in Tasks, n \in 1..2, requester_id \in Users :
        /\ frames[t] = NoFrame
        /\ frames' = [frames EXCEPT ![t] =
               [op |-> "update", pc |-> "await", n |-> n, memory_id |-> MemId(n),
                content |-> "c2", requester_id |-> requester_id, calls |-> <<>>,
                outcome |-> "ok", result |-> None]]
        /\ UNCHANGED <<memory, next_id, last, life>>

\* The backend replaces the content of the record, or raises for an id it
\* does not hold.
ReplyUpdate ==
    \E t \in Tasks :
        /\ frames[t].pc = "await"
        /\ frames[t].op = "update"
        /\ LET fr    == frames[t]
               n     == fr.n
               known == n \in DOMAIN memory
               call  == [fn |-> "update", memory_id |-> fr.memory_id,
                         content |-> fr.content, raised |-> ~known]
           IN  /\ memory' = IF known THEN [memory EXCEPT ![n].memory = fr.content]
                            ELSE memory
               /\ frames' = [frames EXCEPT ![t] =
                      IF known
                      THEN [fr EXCEPT !.pc = "done", !.calls = <<call>>,
                                      !.result = Some(MemoryOfUpdate(fr.memory_id, fr.content))]
                      ELSE [fr EXCEPT !.pc = "done", !.calls = <<call>>,
                                      !.outcome = "BackendError"]]
        /\ UNCHANGED <<next_id, last, life>>

\* delete up to its await: the guard, then the backend delete is issued.
StartDelete ==
    \E t \in Tasks, n \in 1..2, requester_id \in Users :
        LET owner_id == "alice"
            head == [op |-> "delete", n |-> n, memory_id |-> MemId(n), owner_id |-> owner_id,
                     requester_id |-> requester_id, calls |-> <<>>, result |-> None]
        IN  /\ frames[t] = NoFrame
            /\ frames' = [frames EXCEPT ![t] =
                   IF ~Allowed(requester_id, owner_id)
                   THEN head @@ [pc |-> "done", outcome |-> "PermissionError"]
                   ELSE head @@ [pc |-> "await", outcome |-> "ok"]]
            /\ UNCHANGED <<memory, next_id, last, life>>

\* The backend removes the record, or raises for an id it does not hold.
ReplyDelete ==
    \E t \in Tasks :
        /\ frames[t].pc = "await"
        /\ frames[t].op = "delete"
        /\ LET fr    == frames[t]
               n     == fr.n
               known == n \in DOMAIN memory
           IN  /\ memory' = IF known THEN Without(memory, n) ELSE memory
               /\ frames' = [frames EXCEPT ![t] =
                      [fr EXCEPT !.pc = "done", !.calls = DeleteCalls(fr.memory_id, ~known),
                                 !.outcome = IF known THEN "ok" ELSE "BackendError"]]
        /\ UNCHANGED <<next_id, last, life>>

\* The call returns (or raises) to its caller and its frame is gone.
Finish ==
    \E t \in Tasks :
        /\ frames[t].pc = "done"
        /\ frames' = [frames EXCEPT ![t] = NoFrame]
        /\ UNCHANGED <<memory, next_id, last, life>>

\* The manager after two adds of the owner of agent "a" have returned: one
\* private and one public record.
InitConcurrent ==
    /\ memory = (1 :> NewRecord([agent_id |-> "a", visibility |-> "private",
                                 messages |-> "c1", metadata |-> [source |-> "chat"]],
                                "a-private"))
                @@ (2 :> NewRecord([agent_id |-> "a", visibility |-> "public",
                                    messages |-> "c1", metadata |-> [source |-> "chat"]],
                                   "a-public"))
    /\ next_id = 3
    /\ last = NoCall
    /\ manager = "Mem0MemoryManager"
    /\ closed = FALSE
    /\ frames = [t \in Tasks |-> NoFrame]

NextConcurrent ==
    \/ StartSearch \/ ReplySearch
    \/ StartAdd \/ ReplyAdd
    \/ StartUpdate \/ ReplyUpdate
    \/ StartDelete \/ ReplyDelete
    \/ Finish

SpecConcurrent == InitConcurrent /\ [][NextConcurrent]_vars

(* ------------- the readiness probe (routers/health.py) ----------------- *)

\* The text of an error a dependency raises.
Messages == {"", "timeout", "refused"}

\* What a dependency's check does when the probe calls it: it returns (None)
\* or raises an error of some class with some text.
Failures == [kind : {"UnexpectedResponse", "Exception"}, message : Messages]

\* The agent registry (qdrant) may raise either class; the skills registry
\* and the runtime manager are caught by except Exception alone.
Behaviours(i) ==
    {None} \cup {Some(e) : e \in {f \in Failures : i = 1 \/ f.kind = "Exception"}}

\* The keys of checks, in the order the probe runs the checks.
Dependencies == <<"agent_registry", "skills_registry", "runtime_manager">>

\* str(e)
Str(e) ==
    IF e.kind = "UnexpectedResponse" THEN "Unexpected Response: " \o e.message
    ELSE e.message

\* One try block of readiness: the dependency's call and what it did.
CheckCall(i, behaviour) ==
    [name |-> Dependencies[i], raised |-> behaviour # None,
     error |-> IF behaviour # None THEN Some(Str(behaviour[1])) ELSE None]

\* A probe that gives up at the first dependency that fails.
RunChecksUntilFailure(behaviours) ==
    LET failed == {i \in 1..3 : behaviours[i] # None}
        stop   == IF failed = {} THEN 3 ELSE CHOOSE i \in failed : \A j \in failed : i <= j
    IN  [i \in 1..stop |-> CheckCall(i, behaviours[i])]

\* The three try blocks of lines 44-70, one after another.
RunChecks(behaviours) ==
    [i \in 1..3 |-> CheckCall(i, behaviours[i])]

\* readiness(request): the dependency calls it makes and the JSONResponse it
\* returns.
readiness(behaviours) ==
    LET calls  == RunChecks(behaviours)
        ran    == {calls[i].name : i \in DOMAIN calls}
        CallOf(name) == CHOOSE i \in DOMAIN calls : calls[i].name = name
        checks == [name \in ran |-> ~calls[CallOf(name)].raised]
        errors == [name \in {n \in ran : calls[CallOf(n)].raised} |->
                       calls[CallOf(name)].error[1]]
        all_healthy == \A name \in DOMAIN checks : checks[name]
        response == [status |-> IF all_healthy THEN "ok" ELSE "degraded",
                     checks |-> checks]
    IN  /\ last' = [op |-> "readiness", calls |-> calls, outcome |-> "ok",
                    status_code |-> IF all_healthy THEN 200 ELSE 503,
                    content |-> IF DOMAIN errors # {}
                                THEN response @@ [errors |-> errors]
                                ELSE response]
        /\ UNCHANGED <<memory, next_id>>

Readiness ==
    /\ Idle
    /\ UNCHANGED <<life, frames>>
    /\ \E behaviours \in {b \in [1..3 -> Behaviours(1)] :
                             \A i \in 1..3 : b[i] \in Behaviours(i)} :
          readiness(behaviours)

\* liveness(): {"status": "ok"}
Liveness ==
    /\ Idle
    /\ last' = [op |-> "liveness", calls |-> <<>>, outcome |-> "ok",
                status_code |-> 200, content |-> [status |-> "ok"]]
    /\ UNCHANGED <<memory, next_id>>
    /\ UNCHANGED <<life, frames>>

NextHealth == Readiness \/ Liveness \/ Return

SpecHealth == Init /\ [][NextHealth]_vars

(* ------------- the MCP tool get_skills (a4s_mcp/server.py) ------------- *)

\* get_skills is asked for at most this many names in one call.
MaxNames == 2

SkillNames == {"s1", "s2"}

Descriptions == {"d1", "d2"}

\* What GET /api/v1/skills/by-name/{name} may answer: the skill of that name
\* with status 200, or a status without a skill.
Answers(name) ==
    {[status_code |-> 200, json |-> [id |-> 7, name |-> name, description |-> d]] :
         d \in Descriptions}
    \cup {[status_code |-> c] : c \in {204, 404, 500}}

\* await client.get(f"/api/v1/skills/by-name/{name}") and its response.
LookupCall(name, resp) ==
    [fn |-> "GET", url |-> "/api/v1/skills/by-name/" \o name, name |-> name,
     resp |-> resp]

\* The lookups of the for loop of lines 77-83, one per name, in order.
Lookups(names, answers) ==
    [i \in 1..Len(names) |-> LookupCall(names[i], answers[i])]

\* found after the loop.
RECURSIVE Found(_)
Found(calls) ==
    IF calls = <<>> THEN <<>>
    ELSE (IF Head(calls).resp.status_code = 200
          THEN LET skill == Head(calls).resp.json
               IN  <<[name |-> skill["name"], description |-> skill["description"]]>>
          ELSE <<>>)
         \o Found(Tail(calls))

\* A loop that lists as not found only the names answered 404.
RECURSIVE NotFoundOnly404(_)
NotFoundOnly404(calls) ==
    IF calls = <<>> THEN <<>>
    ELSE (IF Head(calls).resp.status_code = 404 THEN <<Head(calls).name>> ELSE <<>>)
         \o NotFoundOnly404(Tail(calls))

\* not_found after the loop.
RECURSIVE NotFound(_)
NotFound(calls) ==
    IF calls = <<>> THEN <<>>
    ELSE (IF Head(calls).resp.status_code = 200 THEN <<>> ELSE <<Head(calls).name>>)
         \o NotFound(Tail(calls))

\* get_skills(ctx, names)
get_skills(names, answers) ==
    LET calls == Lookups(names, answers)
    IN  /\ last' = [op |-> "get_skills", names |-> names, calls |-> calls,
                    outcome |-> "ok",
                    result |-> [found |-> Found(calls), not_found |-> NotFound(calls)]]
        /\ UNCHANGED <<memory, next_id>>

GetSkills ==
    /\ Idle
    /\ UNCHANGED <<life, frames>>
    /\ \E names \in UNION {[1..n -> SkillNames] : n \in 0..MaxNames} :
          \E answers \in {a \in [1..Len(names) -> UNION {Answers(s) : s \in SkillNames}] :
                             \A i \in 1..Len(names) : a[i] \in Answers(names[i])} :
            get_skills(names, answers)

NextSkills == GetSkills \/ Return

SpecSkills == Init /\ [][NextSkills]_vars

(* ------------- the merge of search, over arbitrary answers ------------ *)

NextMerge == SearchAnswered \/ Return

SpecMerge == Init /\ [][NextMerge]_vars

(* ------------------------------ claims -------------------------------- *)

\* The index of the backend record with id memory_id.
IdxOf(memory_id) == CHOOSE n \in 1..MaxMem : MemId(n) = memory_id

\* The namespaces that raised in a run of search.
FailsOf(calls) == {i \in DOMAIN calls : calls[i].raised}

IsSearch == last.op = "search"

NonOwnerSearch == IsSearch /\ last.requester_id # last.owner_id

OwnerSearch == IsSearch /\ last.requester_id = last.owner_id

\* C1: a search by a requester who is not the owner issues no backend search
\* against '<agent_id>-private'; the only namespace it queries is
\* '<agent_id>-public'.
C1_NonOwnerQueriesPublicOnly ==
    NonOwnerSearch =>
        \A i \in DOMAIN last.calls :
            /\ last.calls[i].agent_id # last.request.agent_id \o "-private"
            /\ last.calls[i].agent_id = last.request.agent_id \o "-public"

\* A non-owner has searched an agent whose private namespace holds a record.
C1_Witness ==
    /\ NonOwnerSearch
    /\ last.calls # <<>>
    /\ Stored(memory, last.request.agent_id \o "-private") # {}

\* Backends that differ from mem only in what the private namespaces hold:
\* the private records gone, or their contents replaced.
PrivateVariants(mem) ==
    {[n \in {k \in DOMAIN mem : mem[k].visibility = "public"} |-> mem[n]]}
    \cup {[n \in DOMAIN mem |->
              IF mem[n].visibility = "private"
              THEN [mem[n] EXCEPT !.memory = c] ELSE mem[n]] : c \in Contents}

\* C2: what a non-owner's search returns does not depend on the contents of
\* the private namespaces (the same search against a backend that differs
\* only there returns the same list), and a record added as private is
\* returned only to a search with requester_id = owner_id.
C2_PrivateNonInterference ==
    /\ NonOwnerSearch =>
          \A mem2 \in PrivateVariants(memory) :
              SearchRun(mem2, last.request, last.owner_id, last.requester_id,
                        FailsOf(last.calls)).result = last.result
    /\ IsSearch =>
          \A i \in DOMAIN last.result :
              memory[IdxOf(last.result[i].id)].visibility = "private"
                  => last.requester_id = last.owner_id

\* A non-owner's search returned a public record while the agent's private
\* namespace held a record that scores at least as high.
C2_Witness ==
    /\ NonOwnerSearch
    /\ last.result # <<>>
    /\ \E n \in Stored(memory, last.request.agent_id \o "-private") :
           Rel(last.request.query, memory[n].memory) >= last.result[1].score[1]

\* C3: an add or delete with requester_id # owner_id ends in a permission
\* error, issues no backend call and leaves the backend state unchanged.
C3_DeniedCallTouchesNothing ==
    [][(Idle /\ last'.op \in {"add", "delete"} /\ last'.requester_id # last'.owner_id)
          => /\ last'.outcome = "PermissionError"
             /\ last'.calls = <<>>
             /\ memory' = memory
             /\ next_id' = next_id]_vars

\* A delete of a stored record was denied, and so was an add.
C3_Witness ==
    \/ /\ last.op = "delete"
       /\ last.outcome = "PermissionError"
       /\ last.target # None
       /\ next_id <= MaxMem
    \/ /\ last.op = "add"
       /\ last.outcome = "PermissionError"
       /\ memory # <<>>

\* The owner of the agent a stored record was added for.
OwnerOfRecord(rec) == OwnerOf(rec.agent)

\* C4: an update attempted by a requester who is not the owner of the agent
\* the memory is bound to is rejected before any backend call is made.
C4_NonOwnerUpdateRejected ==
    (last.op = "update" /\ last.target # None
        /\ last.requester_id # OwnerOfRecord(last.target[1]))
    => (last.calls = <<>> /\ last.outcome = "PermissionError")

\* C5: every record a delete removes from the backend was stored in a
\* namespace of an agent owned by the requester, whatever memory_id is passed.
C5_DeleteOnlyOwnRecords ==
    (last.op = "delete" /\ last.outcome = "ok")
    => OwnerOfRecord(last.target[1]) = last.requester_id

\* The score a returned Memory is ordered by.
ScoreOf(m) == IF m.score = None THEN 0 ELSE m.score[1]

\* C6: the list search returns is sorted by score in non-increasing order
\* and has at most limit entries.
C6_SortedAndBounded ==
    IsSearch =>
        /\ Len(last.result) <= last.request.limit
        /\ \A i \in 1..(Len(last.result) - 1) :
               ScoreOf(last.result[i]) >= ScoreOf(last.result[i + 1])

\* The backend returned more hits than limit, a later hit scoring above an
\* earlier one, and the result holds limit entries of unequal score.
C6_Witness ==
    /\ IsSearch
    /\ Len(Collect(last.calls)) > last.request.limit
    /\ \E i, j \in DOMAIN Collect(last.calls) :
           i < j /\ Collect(last.calls)[i].score < Collect(last.calls)[j].score
    /\ Len(last.result) = last.request.limit
    /\ \E i, j \in DOMAIN last.result : ScoreOf(last.result[i]) # ScoreOf(last.result[j])

\* The records of the namespaces a run of search queried.
Visible(calls) ==
    UNION {Stored(memory, calls[i].agent_id) : i \in DOMAIN calls}

Min(a, b) == IF a < b THEN a ELSE b

\* C7: every backend search call carries the request's query and its full
\* limit, and when no call fails the result is the top-limit records by score
\* over all records of the visible namespaces: limit of them (or all, when
\* there are fewer), each once, none scoring below a record left out.
C7_FullLimitGivesGlobalTop ==
    IsSearch =>
        /\ \A i \in DOMAIN last.calls :
               /\ last.calls[i].query = last.request.query
               /\ last.calls[i].limit = last.request.limit
        /\ FailsOf(last.calls) = {} =>
               LET q     == last.request.query
                   all   == Visible(last.calls)
                   taken == {IdxOf(last.result[i].id) : i \in DOMAIN last.result}
               IN  /\ Len(last.result) = Min(last.request.limit, Cardinality(all))
                   /\ Cardinality(taken) = Len(last.result)
                   /\ taken \subseteq all
                   /\ \A i \in DOMAIN last.result :
                          ScoreOf(last.result[i])
                              = Rel(q, memory[IdxOf(last.result[i].id)].memory)
                   /\ \A n \in all \ taken : \A k \in taken :
                          Rel(q, memory[n].memory) <= Rel(q, memory[k].memory)

\* The private namespace returned two hits, the public namespace one hit that
\* outscores both, and with limit 2 that hit comes first and one hit is cut.
C7_Witness ==
    /\ OwnerSearch
    /\ last.request.limit = 2
    /\ FailsOf(last.calls) = {}
    /\ Len(last.calls[1].results) = 2
    /\ Len(last.calls[2].results) = 1
    /\ last.calls[2].results[1].score > last.calls[1].results[1].score
    /\ Len(last.result) = 2
    /\ last.result[1].id = last.calls[2].results[1].id
    /\ last.result[2].id = last.calls[1].results[1].id

\* C8: when one of the two namespaces of an owner's search raises, search
\* returns exactly the hits of the other, in score order and at most limit
\* of them, and raises nothing.
C8_OneNamespaceFails ==
    \A f \in {1, 2} :
        (OwnerSearch /\ FailsOf(last.calls) = {f}) =>
            LET hits == last.calls[3 - f].results
            IN  /\ last.outcome = "ok"
                /\ Len(last.result) = Len(hits)
                /\ Len(last.result) <= last.request.limit
                /\ \A i \in DOMAIN hits :
                       /\ last.result[i].id = hits[i].id
                       /\ last.result[i].content = hits[i].memory
                       /\ last.result[i].score = Some(hits[i].score)
                /\ \A i \in 1..(Len(hits) - 1) :
                       ScoreOf(last.result[i]) >= ScoreOf(last.result[i + 1])

\* The private namespace raised although it holds records, and the public
\* namespace returned two hits of unequal score.
C8_Witness ==
    /\ OwnerSearch
    /\ FailsOf(last.calls) = {1}
    /\ Stored(memory, last.calls[1].agent_id) # {}
    /\ Len(last.result) = 2
    /\ ScoreOf(last.result[1]) > ScoreOf(last.result[2])

\* C9: when the backend search fails for every visible namespace, search
\* returns an empty list and raises nothing.
C9_AllNamespacesFail ==
    (IsSearch /\ FailsOf(last.calls) = DOMAIN last.calls) =>
        (last.result = <<>> /\ last.outcome = "ok")

\* Both namespaces of an owner's search raised although both hold records.
C9_Witness ==
    /\ OwnerSearch
    /\ FailsOf(last.calls) = {1, 2}
    /\ \A i \in {1, 2} : Stored(memory, last.calls[i].agent_id) # {}

\* Agent ids a namespace could be confused with: ids that contain '-', end
\* in a visibility tag, or are empty.
TrickyAgentIds ==
    AgentIds \cup {"", "-", "a-", "a-public", "a-private-public", "a-public-private",
                   "a-private-private", "-private", "private", "a-private-"}

\* C10: the namespace add writes to is composed from (agent_id, visibility)
\* alone, and no other pair (agent_id, visibility), whatever the agent id,
\* composes to the namespace of a stored record.
C10_WriteNamespaceInjective ==
    \A n \in DOMAIN memory :
        /\ memory[n].agent_id
              = _build_agent_id_with_visibility(memory[n].agent, memory[n].visibility)
        /\ \A agent_id \in TrickyAgentIds, visibility \in Visibilities :
               _build_agent_id_with_visibility(agent_id, visibility) = memory[n].agent_id
                   => (agent_id = memory[n].agent /\ visibility = memory[n].visibility)

\* The backend holds a public record of agent 'a-private' beside a private
\* and a public record of agent 'a'.
C10_Witness ==
    /\ \E n \in DOMAIN memory :
           memory[n].agent = "a-private" /\ memory[n].visibility = "public"
    /\ \E n \in DOMAIN memory :
           memory[n].agent = "a" /\ memory[n].visibility = "private"
    /\ \E n \in DOMAIN memory :
           memory[n].agent = "a" /\ memory[n].visibility = "public"

\* C11: an owner's search queries exactly two namespaces, the private and then
\* the public namespace of request.agent_id, each the namespace add writes to
\* for that agent and visibility.
C11_OwnerQueriesPrivateThenPublic ==
    OwnerSearch =>
        /\ Len(last.calls) = 2
        /\ last.calls[1].agent_id
              = _build_agent_id_with_visibility(last.request.agent_id, "private")
        /\ last.calls[2].agent_id
              = _build_agent_id_with_visibility(last.request.agent_id, "public")
        /\ \A n \in DOMAIN memory :
               memory[n].agent = last.request.agent_id =>
                   memory[n].agent_id
                       = last.calls[IF memory[n].visibility = "private" THEN 1 ELSE 2].agent_id

\* An owner has searched an agent that holds a private and a public record,
\* and each of the two backend calls returned a hit.
C11_Witness ==
    /\ OwnerSearch
    /\ FailsOf(last.calls) = {}
    /\ last.calls[1].results # <<>>
    /\ last.calls[2].results # <<>>
    /\ memory[IdxOf(last.calls[1].results[1].id)].visibility = "private"
    /\ memory[IdxOf(last.calls[2].results[1].id)].visibility = "public"

AllowedAdd == last.op = "add" /\ last.requester_id = last.owner_id

\* C12: an allowed add issues exactly one backend add, to the namespace
\* composed from (request.agent_id, request.visibility), with the request's
\* messages and metadata; the records the backend held stay as they were and
\* every record it gains lies in that namespace.
C12_AddWritesOneNamespace ==
    [][(Idle /\ last'.op = "add" /\ last'.requester_id = last'.owner_id) =>
          LET ns == last'.request.agent_id \o "-" \o last'.request.visibility
          IN  /\ Len(last'.calls) = 1
              /\ last'.calls[1].fn = "add"
              /\ last'.calls[1].agent_id = ns
              /\ last'.calls[1].messages = last'.request.messages
              /\ last'.calls[1].metadata = last'.request.metadata
              /\ \A n \in DOMAIN memory :
                     n \in DOMAIN memory' /\ memory'[n] = memory[n]
              /\ \A n \in DOMAIN memory' \ DOMAIN memory :
                     /\ memory'[n].agent_id = ns
                     /\ memory'[n].memory = last'.request.messages
                     /\ memory'[n].metadata = last'.request.metadata]_vars

\* A private add has stored a record while the public namespace of the same
\* agent and a namespace of the other agent hold records.
C12_Witness ==
    /\ AllowedAdd
    /\ last.outcome = "ok"
    /\ last.request.visibility = "private"
    /\ last.result[1].id # ""
    /\ Stored(memory, last.request.agent_id \o "-public") # {}
    /\ \E n \in DOMAIN memory : memory[n].agent # last.request.agent_id

\* The Memory with nothing in it.
EmptyMemory == [id |-> "", content |-> "", score |-> None, metadata |-> None]

\* C13: an allowed add that the backend answers returns a Memory built from
\* the first entry of the backend's list (id, content, metadata, no score),
\* and a Memory with empty id and content when the list is empty.
C13_AddReportsFirstEntry ==
    (AllowedAdd /\ last.outcome = "ok") =>
        LET results == last.calls[1].results
        IN  /\ Len(last.result) = 1
            /\ results = <<>> => last.result[1] = EmptyMemory
            /\ results # <<>> =>
                   /\ last.result[1].id = results[1].id
                   /\ last.result[1].content = results[1].memory
                   /\ last.result[1].metadata = Some(results[1].metadata)
                   /\ last.result[1].score = None

\* The backend reported two entries and add returned the first of them.
C13_Witness ==
    /\ AllowedAdd
    /\ last.outcome = "ok"
    /\ Len(last.calls[1].results) = 2
    /\ last.calls[1].results[1].id # last.calls[1].results[2].id
    /\ last.result[1].id = last.calls[1].results[1].id

\* C14: update issues exactly one backend update with (memory_id,
\* request.content) and, when the backend succeeds, returns a Memory with that
\* id and content and neither score nor metadata.
C14_UpdateForwardsAndEchoes ==
    last.op = "update" =>
        /\ Len(last.calls) = 1
        /\ last.calls[1].fn = "update"
        /\ last.calls[1].memory_id = last.memory_id
        /\ last.calls[1].content = last.content
        /\ last.outcome = "ok" =>
               /\ ~last.calls[1].raised
               /\ last.result = Some([id |-> last.memory_id, content |-> last.content,
                                       score |-> None, metadata |-> None])
               /\ memory[IdxOf(last.memory_id)].memory = last.content

\* An update has replaced the content of a stored record that carries metadata.
C14_Witness ==
    /\ last.op = "update"
    /\ last.outcome = "ok"
    /\ last.target[1].memory # last.content
    /\ last.target[1].metadata = [source |-> "chat"]

\* C15: a backend error during an allowed add, update or delete reaches the
\* caller after exactly one backend call, and no Memory is returned.
C15_BackendErrorPropagates ==
    (last.op \in {"add", "update", "delete"}
        /\ \E i \in DOMAIN last.calls : last.calls[i].raised)
    => /\ Len(last.calls) = 1
       /\ last.outcome = "BackendError"
       /\ last.result = None

\* An add, an update or a delete has ended in a backend error while the
\* backend holds a record.
C15_Witness ==
    /\ last.op \in {"add", "update", "delete"}
    /\ last.outcome = "BackendError"
    /\ memory # <<>>

\* C16: an allowed delete forwards exactly one backend delete, for the given
\* memory_id; that record is gone, every other record stays as it was, and
\* nothing is returned.
C16_DeleteTouchesOneRecord ==
    [][(Idle /\ last'.op = "delete" /\ last'.requester_id = last'.owner_id) =>
          /\ Len(last'.calls) = 1
          /\ last'.calls[1].fn = "delete"
          /\ last'.calls[1].memory_id = last'.memory_id
          /\ last'.result = None
          /\ DOMAIN memory' = DOMAIN memory \ {IdxOf(last'.memory_id)}
          /\ \A k \in DOMAIN memory' : memory'[k] = memory[k]]_vars

\* A delete has removed one record and the backend still holds another.
C16_Witness ==
    /\ last.op = "delete"
    /\ last.outcome = "ok"
    /\ memory # <<>>

\* C20: a search queries each visible namespace exactly once, in order,
\* whether or not the query of another namespace raised.
C20_EachNamespaceQueriedOnce ==
    IsSearch =>
        /\ [i \in DOMAIN last.calls |-> last.calls[i].agent_id]
              = _get_search_agent_ids(last.request.agent_id, last.requester_id,
                                      last.owner_id)
        /\ Len(last.calls) = IF last.requester_id = last.owner_id THEN 2 ELSE 1
        /\ \A i, j \in DOMAIN last.calls :
               last.calls[i].agent_id = last.calls[j].agent_id => i = j

\* The query of the private namespace raised and the query of the public
\* namespace was still made, once, and returned a hit.
C20_Witness ==
    /\ OwnerSearch
    /\ last.calls[1].raised
    /\ Len(last.calls) = 2
    /\ ~last.calls[2].raised
    /\ last.calls[2].results # <<>>
    /\ Stored(memory, last.calls[1].agent_id) # {}

DataOps == {"add", "search", "update", "delete"}

\* C17: a manager is Open or Closed, close() alone takes it from Open to
\* Closed, never back, and once Closed it rejects add, search, update and
\* delete: no operation reaches the backend after close().
C17_ClosedRejectsOperations ==
    (closed /\ last.op \in DataOps) =>
        (last.calls = <<>> /\ last.outcome # "ok")

\* C17 as amended: a manager is Open or Closed, close() alone takes it from
\* Open to Closed, never back, and close() itself makes no backend call and
\* leaves the backend as it is; the Mem0 manager rejects nothing after
\* close(): a search or an allowed add on a closed manager still calls the
\* backend.
C17_OneWayCloseRejectsNothing ==
    [][/\ closed \in BOOLEAN
       /\ closed => closed'
       /\ closed' # closed => (Idle /\ last'.op = "close")
       /\ (Idle /\ last'.op = "close") =>
              (closed' /\ last'.calls = <<>> /\ memory' = memory /\ next_id' = next_id)
       /\ (closed /\ Idle /\ last'.op = "search") => last'.calls # <<>>
       /\ (closed /\ Idle /\ last'.op = "add" /\ last'.requester_id = last'.owner_id)
              => last'.calls # <<>>]_vars

\* On a closed manager whose backend holds a record, a search has queried
\* the backend and returned a hit.
C17_Witness ==
    /\ closed
    /\ IsSearch
    /\ last.result # <<>>

\* C18: close() never fails and is idempotent: in any state it ends without
\* an error, and a close() of a closed manager leaves the manager and the
\* backend exactly as the first close() left them.
C18_CloseIdempotent ==
    [][(Idle /\ last'.op = "close") =>
          /\ last'.outcome = "ok"
          /\ closed'
          /\ manager' = manager
          /\ memory' = memory
          /\ next_id' = next_id
          /\ closed => closed' = closed]_vars

\* close() has been called on a manager that was closed already, with
\* records in the backend.
C18_Witness ==
    /\ last.op = "close"
    /\ last.was_closed
    /\ memory # <<>>

IsCreate == last.op = "create_memory_manager"

\* The configuration the factory goes by: config or default_config.
EffectiveConfig == IF last.config # None THEN last.config[1] ELSE last.default_config

Collected == Collect(last.calls)

HasScore(hit) == "score" \in DOMAIN hit

\* The key a hit is to be ordered by: its score, 0 for a hit without one.
KeyOf(hit) == IF HasScore(hit) THEN hit.score ELSE 0

\* Memory m has the id, content, score and metadata of hit, "" standing for
\* a missing id or content and null for a missing score or metadata.
Carries(m, hit) ==
    /\ m.id = (IF "id" \in DOMAIN hit THEN hit.id ELSE "")
    /\ m.content = (IF "memory" \in DOMAIN hit THEN hit.memory ELSE "")
    /\ m.score = (IF HasScore(hit) THEN <<hit.score>> ELSE <<>>)
    /\ m.metadata = (IF "metadata" \in DOMAIN hit THEN <<hit.metadata>> ELSE <<>>)

C22_MemoryCarriesOneHit ==
    IsSearch =>
        /\ \A i \in DOMAIN last.result :
              \E k \in DOMAIN Collected : Carries(last.result[i], Collected[k])
        /\ (\A k \in DOMAIN Collected : ~HasScore(Collected[k])) =>
              \A i \in DOMAIN last.result : last.result[i].score = None

\* Search returned the Memory of a hit that has no id and no metadata and
\* the Memory of a hit that has no score and no metadata.
C22_Witness ==
    /\ IsSearch
    /\ Len(last.result) = 2
    /\ \E i \in DOMAIN last.result :
          /\ last.result[i].id = ""
          /\ last.result[i].metadata = None
    /\ \E i \in DOMAIN last.result :
          /\ last.result[i].score = None
          /\ last.result[i].content = "c1"
          /\ last.result[i].metadata = None

\* Hit k of Collected goes ahead of hit n: it has the greater key, or the
\* same key and the earlier place (private namespace first, then the order
\* of the provider's answer).
Ahead(k, n) ==
    \/ KeyOf(Collected[k]) > KeyOf(Collected[n])
    \/ /\ KeyOf(Collected[k]) = KeyOf(Collected[n])
       /\ k < n

\* C25: the merge is stable: among hits of equal score (a hit without a
\* score counting as 0) the private namespace's hits precede the public
\* namespace's and the hits of one namespace keep the provider's order, and
\* the truncation to limit drops the hits that come last in that order.
C25_MergeIsStable ==
    IsSearch =>
        \E f \in [DOMAIN last.result -> DOMAIN Collected] :
            /\ \A i \in DOMAIN f : Carries(last.result[i], Collected[f[i]])
            /\ \A i, j \in DOMAIN f : i < j => Ahead(f[i], f[j])
            /\ \A k \in DOMAIN Collected :
                  (\A i \in DOMAIN f : f[i] # k) =>
                      /\ Len(last.result) = last.request.limit
                      /\ \A i \in DOMAIN f : Ahead(f[i], k)

\* The private and the public namespace each answered one hit, both of score
\* 1, and with limit 1 search kept the private one.
C25_Witness ==
    /\ IsSearch
    /\ last.request.limit = 1
    /\ Len(last.calls) = 2
    /\ Len(last.calls[1].results) = 1
    /\ Len(last.calls[2].results) = 1
    /\ last.calls[1].results[1] # last.calls[2].results[1]
    /\ KeyOf(last.calls[1].results[1]) = KeyOf(last.calls[2].results[1])
    /\ Len(last.result) = 1
    /\ Carries(last.result[1], last.calls[1].results[1])

\* The hit lists the backend returned during one search, one after another.
RECURSIVE Answered(_)
Answered(calls) ==
    IF calls = <<>> THEN <<>>
    ELSE (IF Head(calls).raised THEN <<>> ELSE Head(calls).results) \o Answered(Tail(calls))

\* How many entries of the returned list are the Memory m, and how many of
\* the answered hits it is the Memory of.
TimesReturned(call, m) == Cardinality({i \in DOMAIN call.result : call.result[i] = m})
TimesAnswered(call, m) ==
    Cardinality({k \in DOMAIN Answered(call.calls) : Carries(m, Answered(call.calls)[k])})

\* C27: search reads only: its backend calls are searches and the backend
\* holds after it what it held before; and what it returns is a sub-multiset
\* of the hits the backend answered during it (none invented, none
\* repeated), a hit being left out only by the truncation to limit.
C27_SearchReadsOnly ==
    [][(Idle /\ last'.op = "search") =>
          /\ memory' = memory
          /\ next_id' = next_id
          /\ \A i \in DOMAIN last'.calls : last'.calls[i].fn = "search"
          /\ \A i \in DOMAIN last'.result :
                TimesReturned(last', last'.result[i]) <= TimesAnswered(last', last'.result[i])
          /\ Len(last'.result) = Min(last'.request.limit, Len(Answered(last'.calls)))]_vars

\* Over a backend that holds records, a search was answered more hits than
\* its limit and returned limit of them.
C27_Witness ==
    /\ IsSearch
    /\ memory # <<>>
    /\ Len(Answered(last.calls)) > last.request.limit
    /\ Len(last.result) = last.request.limit

\* C28: when the query of the private namespace fails and the query of the
\* public namespace is answered, an owner's search returns the list a
\* non-owner's search of the same agent_id, query and limit returns against
\* the same backend state.
C28_OwnerWithoutPrivateAsNonOwner ==
    (OwnerSearch /\ FailsOf(last.calls) = {1}) =>
        \A requester_id \in Users \ {last.owner_id} :
            LET other == SearchRun(memory, last.request, last.owner_id, requester_id, {})
            IN  /\ last.result = other.result
                /\ last.outcome = other.outcome

\* The private query of an owner's search failed although the namespace holds
\* a record, and the search returned the public namespace's hits.
C28_Witness ==
    /\ OwnerSearch
    /\ FailsOf(last.calls) = {1}
    /\ Stored(memory, last.calls[1].agent_id) # {}
    /\ last.result # <<>>

\* C24: a stored memory stays in the namespace it was added to: whatever
\* operation runs, a record the backend keeps keeps its namespace, an update
\* changes the content of its record and nothing else, and no search of a
\* non-owner returns a memory that was added as private.
C24_MemoryKeepsNamespace ==
    [][/\ \A n \in DOMAIN memory \cap DOMAIN memory' :
             /\ memory'[n].agent_id = memory[n].agent_id
             /\ memory'[n].metadata = memory[n].metadata
             /\ memory'[n].agent_id =
                    memory'[n].agent \o "-" \o memory'[n].visibility
       /\ (Idle /\ last'.op = "update" /\ last'.outcome = "ok") =>
             /\ DOMAIN memory' = DOMAIN memory
             /\ \A n \in DOMAIN memory :
                    n # IdxOf(last'.memory_id) => memory'[n] = memory[n]
       /\ (Idle /\ last'.op = "search" /\ last'.requester_id # last'.owner_id) =>
             \A i \in DOMAIN last'.result :
                 memory[IdxOf(last'.result[i].id)].visibility # "private"]_vars

\* An update has replaced the content of a record that was added as private,
\* and the record is in the private namespace still.
C24_Witness ==
    /\ last.op = "update"
    /\ last.outcome = "ok"
    /\ last.target # None
    /\ last.target[1].visibility = "private"
    /\ last.target[1].memory # last.content
    /\ memory[IdxOf(last.memory_id)].memory = last.content
    /\ memory[IdxOf(last.memory_id)].agent_id = last.target[1].agent \o "-private"

IsReadiness == last.op = "readiness"

\* The checks of a probe that failed, by name.
FailedChecks == {last.calls[i].name : i \in {k \in DOMAIN last.calls : last.calls[k].raised}}

\* C29: the readiness probe runs all three checks (agent registry, skills
\* registry, runtime manager) whatever fails; it answers 200 and 'ok' exactly
\* when all three succeed and 503 and 'degraded' otherwise; and 'errors' is
\* in the answer exactly when a check failed, with one entry per failed check.
C29_ProbeRunsEveryCheck ==
    IsReadiness =>
        /\ Len(last.calls) = 3
        /\ last.calls[1].name = "agent_registry"
        /\ last.calls[2].name = "skills_registry"
        /\ last.calls[3].name = "runtime_manager"
        /\ last.outcome = "ok"
        /\ DOMAIN last.content.checks =
               {"agent_registry", "skills_registry", "runtime_manager"}
        /\ \A i \in DOMAIN last.calls :
               last.content.checks[last.calls[i].name] = ~last.calls[i].raised
        /\ (FailedChecks = {}) <=>
               (last.status_code = 200 /\ last.content.status = "ok")
        /\ (FailedChecks # {}) <=>
               (last.status_code = 503 /\ last.content.status = "degraded")
        /\ ("errors" \in DOMAIN last.content) <=> (FailedChecks # {})
        /\ "errors" \in DOMAIN last.content =>
               DOMAIN last.content.errors = FailedChecks

\* The agent registry failed with an empty error text, the skills registry
\* answered and the runtime manager failed: the probe ran all three and
\* reports two errors.
C29_Witness ==
    /\ IsReadiness
    /\ last.calls[1].raised /\ last.calls[1].error = Some("")
    /\ ~last.calls[2].raised
    /\ last.calls[3].raised
    /\ last.status_code = 503
    /\ DOMAIN last.content.errors = {"agent_registry", "runtime_manager"}

IsGetSkills == last.op = "get_skills"

\* The requested names whose lookup was, or was not, answered 200, in the
\* order requested.
RECURSIVE NamesAnswered(_, _)
NamesAnswered(calls, ok) ==
    IF calls = <<>> THEN <<>>
    ELSE (IF (Head(calls).resp.status_code = 200) = ok THEN <<Head(calls).name>> ELSE <<>>)
         \o NamesAnswered(Tail(calls), ok)

Searching == {t \in Tasks : frames[t].pc # "none" /\ frames[t].op = "search"}

\* C23: calls that interleave at their backend awaits do not mix: the list a
\* search gathers is at every moment the answers to its own queries, what it
\* returns is made of those alone, and whether an add or a delete is let
\* through depends on its own requester_id and owner_id only.
C23_CallsDoNotMix ==
    \A t \in Tasks :
        /\ t \in Searching =>
              /\ frames[t].all_results = Answered(frames[t].calls)
              /\ \A i \in DOMAIN frames[t].calls :
                    /\ frames[t].calls[i].agent_id = frames[t].agent_ids[i]
                    /\ frames[t].calls[i].query = frames[t].request.query
              /\ Done(frames[t]) =>
                    frames[t].result =
                        SearchResult(frames[t].calls, frames[t].request.limit)
        /\ (frames[t].pc # "none" /\ frames[t].op \in {"add", "delete"}) =>
              /\ (frames[t].outcome = "PermissionError")
                    <=> (frames[t].requester_id # frames[t].owner_id)
              /\ frames[t].outcome = "PermissionError" => frames[t].calls = <<>>

\* Two searches of the owner are in flight at once, each between its two
\* queries: the private query of the one failed and that of the other was
\* answered, and each holds its own answer only.
C23_Witness ==
    /\ Searching = Tasks
    /\ \A t \in Tasks : Awaiting(frames[t]) /\ Len(frames[t].calls) = 1
    /\ frames[1].calls[1].raised
    /\ frames[1].all_results = <<>>
    /\ ~frames[2].calls[1].raised
    /\ frames[2].all_results # <<>>

\* C26: the fan-out of search is sequential: a search has at most one
\* backend query in flight, the query of a namespace is issued only when the
\* queries of the namespaces before it have returned or failed, and the
\* list is sorted, cut and returned only when every visible namespace has
\* been queried.
C26_FanOutIsSequential ==
    \A t \in Searching :
        LET fr == frames[t]
        IN  /\ fr.issued - Len(fr.calls) \in {0, 1}
            /\ fr.issued <= Len(fr.agent_ids)
            /\ Awaiting(fr) => (fr.issued = Len(fr.calls) + 1 /\ fr.result = <<>>)
            /\ Done(fr) => (Len(fr.calls) = Len(fr.agent_ids) /\ fr.issued = Len(fr.calls))
            /\ \A i \in DOMAIN fr.calls : fr.calls[i].agent_id = fr.agent_ids[i]

\* An owner's search has its public query in flight, the private one having
\* been answered, while the other task awaits a backend call of its own.
C26_Witness ==
    \E t \in Searching :
        /\ Len(frames[t].agent_ids) = 2
        /\ Awaiting(frames[t])
        /\ frames[t].issued = 2
        /\ Len(frames[t].calls) = 1
        /\ ~frames[t].calls[1].raised
        /\ \A u \in Tasks \ {t} : Awaiting(frames[u])

====
